---- MODULE Spec2Model ----
(***************************************************************************)
(* Bulk Calendar Events (src/main.py): one run of main(), from argument    *)
(* parsing to the file-manager reveal, with the files it touches, the      *)
(* external processes it launches and the user at the input prompt.        *)
(***************************************************************************)
EXTENDS Integers, Sequences, FiniteSets, TLC

VARIABLES
    pc,        \* position of main() in its pass
    argv,      \* the command line: --file and --output as typed (PyNone when absent)
    args,      \* the namespace parse_args returns; args.file is rewritten by main
    disk,      \* path -> content of the file at that path
    disk0,     \* the disk as it was when the run started
    workbook,  \* rows of the sheet load_events has loaded (<<>> before the load)
    rowIdx,    \* position of the `rows` iterator of load_events
    events,    \* the list load_events is building
    cal,       \* components of the Calendar export_ics has built
    procs,     \* external processes launched so far, in order
    clock      \* the wall clock datetime.now() reads

vars == <<pc, argv, args, disk, disk0, workbook, rowIdx, events, cal, procs, clock>>

(***************************************************************************)
(* Bounds                                                                  *)
(***************************************************************************)
MaxRows == 2    \* data rows of a sheet
MaxClock == 1   \* instants the wall clock can show

(***************************************************************************)
(* Python values                                                           *)
(***************************************************************************)
PyNone == [kind |-> "None"]
Str(s) == [kind |-> "str", s |-> s]
PyInt(n) == [kind |-> "int", n |-> n]
Date(d) == [kind |-> "date", d |-> d]
Time(t) == [kind |-> "time", t |-> t]
DateTime(d, t) == [kind |-> "datetime", d |-> d, t |-> t]
Path(p) == [kind |-> "path", p |-> p]

\* str(x), for the values a Location cell holds
PyStr(v) ==
    CASE v.kind = "None" -> Str("None")
      [] v.kind = "str" -> v
      [] v.kind = "int" -> Str(ToString(v.n))

\* datetime.combine raises TypeError unless given a date (or datetime) and a time
CombineOk(date, time) ==
    /\ date.kind \in {"date", "datetime"}
    /\ time.kind = "time"

\* fault variant: a datetime given as the date keeps its own time of day
Combine_keeps_own_time(date, time) ==
    DateTime(date.d, IF date.kind = "datetime" THEN date.t ELSE time.t)

\* datetime.combine(date, time): the date's year/month/day with the time's fields
Combine(date, time) == DateTime(date.d, time.t)

\* icalendar.vText(s): a str holding the same text
vText(v) == Str(v.s)

(***************************************************************************)
(* Paths                                                                   *)
(***************************************************************************)
EventsFile == <<"e", "v", "e", "n", "t", "s", ".", "x", "l", "s", "x">>
DefaultOutput == <<"o", "u", "t", "p", "u", "t", ".", "i", "c", "s">>
UserXlsx == <<"m", "a", "y", ".", "X", "L", "S", "X">>
UserCsv == <<"m", "a", "y", ".", "c", "s", "v">>
UserIcs == <<"m", "a", "y", ".", "I", "c", "s">>
UserTxt == <<"i", "c", "s", ".", "t", "x", "t">>
HiddenIcs == <<".", "i", "c", "s">>

Paths == {EventsFile, DefaultOutput, UserXlsx, UserCsv, UserIcs, UserTxt, HiddenIcs}
FileArgs == {PyNone, Path(UserXlsx), Path(EventsFile), Path(UserCsv)}
OutputArgs == {PyNone, Path(UserIcs), Path(UserTxt), Path(HiddenIcs)}

UpperCase == <<"A", "B", "C", "D", "E", "F", "G", "H", "I", "J", "K", "L", "M",
               "N", "O", "P", "Q", "R", "S", "T", "U", "V", "W", "X", "Y", "Z">>
LowerCase == <<"a", "b", "c", "d", "e", "f", "g", "h", "i", "j", "k", "l", "m",
               "n", "o", "p", "q", "r", "s", "t", "u", "v", "w", "x", "y", "z">>

LowerChar(c) ==
    IF \E i \in 1..Len(UpperCase) : UpperCase[i] = c
    THEN LowerCase[CHOOSE i \in 1..Len(UpperCase) : UpperCase[i] = c]
    ELSE c

\* str.lower()
Lower(s) == [i \in 1..Len(s) |-> LowerChar(s[i])]

\* pathlib's PurePath.suffix of a one-component path: from the last dot on,
\* unless the name has no dot, starts with its only dot or ends with it
Suffix(p) ==
    LET dots == {i \in 1..Len(p) : p[i] = "."}
    IN  IF dots = {} THEN <<>>
        ELSE LET i == CHOOSE j \in dots : \A k \in dots : k <= j
             IN  IF 1 < i /\ i < Len(p) THEN SubSeq(p, i, Len(p)) ELSE <<>>

\* fault variant: the name is tested with endswith(".ics") instead of its suffix
ics_file_endswith(s) ==
    /\ Len(s) >= 4
    /\ Lower(SubSeq(s, Len(s) - 3, Len(s))) = <<".", "i", "c", "s">>

\* ics_file does not raise ArgumentTypeError
ics_file(s) == Lower(Suffix(s)) = <<".", "i", "c", "s">>

\* xlsx_file does not raise ArgumentTypeError
xlsx_file(s) == Lower(Suffix(s)) = <<".", "x", "l", "s", "x">>

(***************************************************************************)
(* Files and sheets                                                        *)
(***************************************************************************)
NoFile == [kind |-> "absent"]
Other == [kind |-> "other"]
Truncated == [kind |-> "bytes", components |-> <<>>, complete |-> FALSE]
Xlsx(rows) == [kind |-> "xlsx", rows |-> rows]

\* the bytes of cal.to_ical(): the calendar with its components in order
to_ical(components) == [kind |-> "bytes", components |-> components, complete |-> TRUE]

Header == <<Str("Title"), Str("Description"), Str("Date"),
            Str("Start time"), Str("End time"), Str("Location")>>

Standup == <<Str("Standup"), Str("Daily sync"), Date(1), Time(9), Time(10), Str("Room A")>>
Retro == <<Str("Retro"), Str("Look back"), DateTime(2, 7), Time(9), Time(8), PyNone>>
Lunch == <<Str("Lunch"), Str("Eat"), Date(2), Time(12), Time(12), PyInt(7)>>

GoodRows == {Standup, Retro, Lunch}
BadRows ==
    {[Standup EXCEPT ![3] = v] : v \in {PyNone, Str("tomorrow")}}
    \cup {[Standup EXCEPT ![4] = v] : v \in {PyNone, DateTime(1, 9)}}
    \cup {[Standup EXCEPT ![5] = v] : v \in {PyNone, PyInt(10)}}
Rows == GoodRows \cup BadRows

Sheets == UNION {{<<Header>> \o data : data \in [1..k -> Rows]} : k \in 0..MaxRows}

(***************************************************************************)
(* The run                                                                 *)
(***************************************************************************)
OutputOf(a) == IF a.output = PyNone THEN DefaultOutput ELSE a.output.p

Init ==
    /\ pc = "parse_args"
    /\ argv \in [file : FileArgs, output : OutputArgs]
    /\ args = [file |-> PyNone, output |-> PyNone]
    /\ \E sheet \in Sheets, stale \in BOOLEAN, old \in BOOLEAN :
          disk = [p \in Paths |->
                    IF argv.file # PyNone /\ p = argv.file.p
                    THEN IF p = UserCsv THEN Other ELSE Xlsx(sheet)
                    ELSE IF p = EventsFile /\ stale THEN Xlsx(<<Header>>)
                    ELSE IF p = OutputOf(argv) /\ old THEN Other
                    ELSE NoFile]
    /\ disk0 = disk
    /\ workbook = <<>>
    /\ rowIdx = 0
    /\ events = <<>>
    /\ cal = <<>>
    /\ procs = <<>>
    /\ clock = 0

\* parse_args: argparse applies the type functions; a raise ends the run (exit 2)
parse_args ==
    /\ pc = "parse_args"
    /\ IF /\ argv.file # PyNone => xlsx_file(argv.file.p)
          /\ argv.output # PyNone => ics_file(argv.output.p)
       THEN /\ args' = [file |-> argv.file, output |-> Path(OutputOf(argv))]
            /\ pc' = "check_file"
       ELSE /\ pc' = "arg_error"
            /\ UNCHANGED args
    /\ UNCHANGED <<argv, disk, disk0, workbook, rowIdx, events, cal, procs, clock>>

\* fault variant: the template is created whether or not --file was given
check_file_always_creates ==
    /\ pc = "check_file"
    /\ pc' = "create_event_file"
    /\ UNCHANGED <<argv, args, disk, disk0, workbook, rowIdx, events, cal, procs, clock>>

\* main: if args.file is None
check_file ==
    /\ pc = "check_file"
    /\ pc' = IF args.file = PyNone THEN "create_event_file" ELSE "load_events"
    /\ UNCHANGED <<argv, args, disk, disk0, workbook, rowIdx, events, cal, procs, clock>>

\* fault variant: the workbook is saved before the header row is appended
create_event_file_no_header ==
    /\ pc = "create_event_file"
    /\ disk' = [disk EXCEPT ![EventsFile] = Xlsx(<<>>)]
    /\ pc' = "open_excel"
    /\ UNCHANGED <<argv, args, disk0, workbook, rowIdx, events, cal, procs, clock>>

\* create_event_file: a workbook holding the header row, saved as events.xlsx
create_event_file ==
    /\ pc = "create_event_file"
    /\ disk' = [disk EXCEPT ![EventsFile] = Xlsx(<<Header>>)]
    /\ pc' = "open_excel"
    /\ UNCHANGED <<argv, args, disk0, workbook, rowIdx, events, cal, procs, clock>>

\* create_event_file: subprocess.call(['open', '-a', Excel, filename])
open_excel ==
    /\ pc = "open_excel"
    /\ procs' = Append(procs, [cmd |-> "excel", target |-> EventsFile])
    /\ pc' = "input"
    /\ UNCHANGED <<argv, args, disk, disk0, workbook, rowIdx, events, cal, clock>>

\* the user, while the program waits in input(): adds a row and saves
user_add_row ==
    /\ pc = "input"
    /\ disk[EventsFile].kind = "xlsx"
    /\ Len(disk[EventsFile].rows) <= MaxRows
    /\ \E r \in Rows :
          disk' = [disk EXCEPT ![EventsFile] = Xlsx(Append(disk[EventsFile].rows, r))]
    /\ UNCHANGED <<pc, argv, args, disk0, workbook, rowIdx, events, cal, procs, clock>>

\* the user presses RETURN: input() returns, create_event_file returns filename
user_return ==
    /\ pc = "input"
    /\ args' = [args EXCEPT !.file = Path(EventsFile)]
    /\ pc' = "load_events"
    /\ UNCHANGED <<argv, disk, disk0, workbook, rowIdx, events, cal, procs, clock>>

\* fault variant: the iterator is advanced twice before the loop
load_events_open_skips_two ==
    /\ pc = "load_events"
    /\ workbook' = disk[args.file.p].rows
    /\ rowIdx' = 3
    /\ events' = <<>>
    /\ pc' = "load_row"
    /\ UNCHANGED <<argv, args, disk, disk0, cal, procs, clock>>

\* load_events: load the workbook, take sheet.rows, skip the header
load_events_open ==
    /\ pc = "load_events"
    /\ workbook' = disk[args.file.p].rows
    /\ rowIdx' = 2
    /\ events' = <<>>
    /\ pc' = "load_row"
    /\ UNCHANGED <<argv, args, disk, disk0, cal, procs, clock>>

\* create_calendar_event: dtstamp is datetime.now(); location is set unless None
create_calendar_event(title, description, start_dt, end_dt, location, now) ==
    LET ev == [SUMMARY |-> title, DESCRIPTION |-> description,
               DTSTART |-> start_dt, DTEND |-> end_dt, DTSTAMP |-> now]
    IN  IF location # PyNone THEN ev @@ [LOCATION |-> vText(location)] ELSE ev

\* fault variant: a row whose date or times cannot be combined is skipped
load_events_row_skips_bad ==
    /\ pc = "load_row"
    /\ rowIdx <= Len(workbook)
    /\ LET row == workbook[rowIdx]
       IN  IF CombineOk(row[3], row[4]) /\ CombineOk(row[3], row[5])
           THEN \E now \in clock..MaxClock :
                   /\ events' = Append(events,
                          create_calendar_event(row[1], row[2],
                              Combine(row[3], row[4]), Combine(row[3], row[5]),
                              PyStr(row[6]), now))
                   /\ clock' = now
           ELSE UNCHANGED <<events, clock>>
    /\ rowIdx' = rowIdx + 1
    /\ pc' = "load_row"
    /\ UNCHANGED <<argv, args, disk, disk0, workbook, cal, procs>>

\* load_events: one pass of the for loop
load_events_row ==
    /\ pc = "load_row"
    /\ rowIdx <= Len(workbook)
    /\ LET row == workbook[rowIdx]
           title == row[1]
           description == row[2]
           location == PyStr(row[6])
           date == row[3]
           start_time == row[4]
           end_time == row[5]
       IN  IF CombineOk(date, start_time) /\ CombineOk(date, end_time)
           THEN \E now \in clock..MaxClock :
                   /\ events' = Append(events,
                          create_calendar_event(title, description,
                              Combine(date, start_time), Combine(date, end_time),
                              location, now))
                   /\ clock' = now
                   /\ rowIdx' = rowIdx + 1
                   /\ pc' = "load_row"
           ELSE /\ pc' = "error"
                /\ UNCHANGED <<events, clock, rowIdx>>
    /\ UNCHANGED <<argv, args, disk, disk0, workbook, cal, procs>>

\* load_events: the iterator is exhausted, return events
load_events_return ==
    /\ pc = "load_row"
    /\ rowIdx > Len(workbook)
    /\ pc' = "export_ics"
    /\ UNCHANGED <<argv, args, disk, disk0, workbook, rowIdx, events, cal, procs, clock>>

\* export_ics: build the Calendar, open the output file for writing (truncating it)
export_ics_open ==
    /\ pc = "export_ics"
    /\ cal' = events
    /\ disk' = [disk EXCEPT ![args.output.p] = Truncated]
    /\ pc' = "export_write"
    /\ UNCHANGED <<argv, args, disk0, workbook, rowIdx, events, procs, clock>>

\* export_ics: f.write(cal.to_ical()) and close
export_ics_write ==
    /\ pc = "export_write"
    /\ disk' = [disk EXCEPT ![args.output.p] = to_ical(cal)]
    /\ pc' = "delete_temporary_files"
    /\ UNCHANGED <<argv, args, disk0, workbook, rowIdx, events, cal, procs, clock>>

\* delete_temporary_files: unlink events.xlsx if it exists
delete_temporary_files ==
    /\ pc = "delete_temporary_files"
    /\ disk' = IF disk[EventsFile] # NoFile
               THEN [disk EXCEPT ![EventsFile] = NoFile]
               ELSE disk
    /\ pc' = "reveal"
    /\ UNCHANGED <<argv, args, disk0, workbook, rowIdx, events, cal, procs, clock>>

\* main: subprocess.call(["open", "-R", output])
reveal ==
    /\ pc = "reveal"
    /\ procs' = Append(procs, [cmd |-> "reveal", target |-> args.output.p])
    /\ pc' = "done"
    /\ UNCHANGED <<argv, args, disk, disk0, workbook, rowIdx, events, cal, clock>>

Next ==
    \/ parse_args
    \/ check_file
    \/ create_event_file
    \/ open_excel
    \/ user_add_row
    \/ user_return
    \/ load_events_open
    \/ load_events_row
    \/ load_events_return
    \/ export_ics_open
    \/ export_ics_write
    \/ delete_temporary_files
    \/ reveal

Spec == Init /\ [][Next]_vars

\* the program executes without pause; only the user's steps are not forced
ProgramStep ==
    \/ parse_args
    \/ check_file
    \/ create_event_file
    \/ open_excel
    \/ load_events_open
    \/ load_events_row
    \/ load_events_return
    \/ export_ics_open
    \/ export_ics_write
    \/ delete_temporary_files
    \/ reveal

\* the runs started without --file, the program's steps weakly fair
InitNoFile == Init /\ argv.file = PyNone

PromptSpec == InitNoFile /\ [][Next]_vars /\ WF_vars(ProgramStep)

(***************************************************************************)
(* Vocabulary of the properties                                            *)
(***************************************************************************)
Terminal == pc \in {"arg_error", "error", "done"}

\* export_ics has returned and nothing has run since
ExportDone == pc = "delete_temporary_files"

\* the sheet the run parses: the supplied file as it was at start, or the template
InputSheet ==
    IF argv.file # PyNone THEN disk0[argv.file.p].rows ELSE disk[EventsFile].rows

DataRows == SubSeq(InputSheet, 2, Len(InputSheet))
Document == disk[OutputOf(argv)]
Components == Document.components

CellText(cell) ==
    CASE cell.kind = "None" -> ""
      [] cell.kind = "str" -> cell.s
      [] cell.kind = "int" -> ToString(cell.n)

LocationText(component) ==
    IF "LOCATION" \in DOMAIN component THEN component.LOCATION.s ELSE ""

Launched(cmd) == \E i \in 1..Len(procs) : procs[i].cmd = cmd

(***************************************************************************)
(* C1: when export_ics has returned, the output document holds exactly one *)
(* component per data row of the input sheet, the i-th component carrying  *)
(* the i-th row's title and description; the header row yields none.       *)
(***************************************************************************)
C1_OneComponentPerRowInOrder ==
    ExportDone =>
        /\ Document.kind = "bytes" /\ Document.complete
        /\ Len(Components) = Len(DataRows)
        /\ \A i \in 1..Len(DataRows) :
              /\ Components[i].SUMMARY = DataRows[i][1]
              /\ Components[i].DESCRIPTION = DataRows[i][2]

C1_Witness ==
    /\ ExportDone
    /\ Len(Components) = 2
    /\ Components[1].SUMMARY = Str("Retro")
    /\ Components[2].SUMMARY = Str("Standup")

(***************************************************************************)
(* C2: every component's summary, description and location equal the text  *)
(* of the row's Title, Description and Location cells; an empty Location   *)
(* cell yields no location text.                                           *)
(***************************************************************************)
C2_TextRoundTrip ==
    ExportDone =>
        \A i \in 1..Len(Components) :
            /\ Components[i].SUMMARY.s = CellText(DataRows[i][1])
            /\ Components[i].DESCRIPTION.s = CellText(DataRows[i][2])
            /\ LocationText(Components[i]) = CellText(DataRows[i][6])

(***************************************************************************)
(* C3: DTSTART is the row's date with the start time's time of day, DTEND  *)
(* the same date with the end time's, nothing shifted; a row whose end     *)
(* time is before its start time is exported as it is.                     *)
(***************************************************************************)
C3_StartEndCombineDateAndTime ==
    ExportDone =>
        \A i \in 1..Len(Components) :
            /\ Components[i].DTSTART.kind = "datetime"
            /\ Components[i].DTSTART.d = DataRows[i][3].d
            /\ Components[i].DTSTART.t = DataRows[i][4].t
            /\ Components[i].DTEND.kind = "datetime"
            /\ Components[i].DTEND.d = DataRows[i][3].d
            /\ Components[i].DTEND.t = DataRows[i][5].t

C3_Witness ==
    /\ ExportDone
    /\ \E i \in 1..Len(Components) :
          /\ DataRows[i][3].kind = "datetime"
          /\ DataRows[i][3].t # DataRows[i][4].t
          /\ Components[i].DTEND.t < Components[i].DTSTART.t
          /\ Components[i].DTEND.d = Components[i].DTSTART.d

\* the --output values whose suffix is not .ics, the --file values whose suffix is not .xlsx
BadOutputArgs == {Path(UserTxt), Path(HiddenIcs)}
BadFileArgs == {Path(UserCsv)}

(***************************************************************************)
(* C4: with an --output whose suffix is not .ics or a --file whose suffix  *)
(* is not .xlsx (case ignored), the run goes from argument parsing to the  *)
(* argument error and nowhere else: no file is created, written or         *)
(* deleted, no sheet is read and no process is launched.                   *)
(***************************************************************************)
C4_ArgumentErrorBeforeAnyWork ==
    (argv.output \in BadOutputArgs \/ argv.file \in BadFileArgs) =>
        /\ pc \in {"parse_args", "arg_error"}
        /\ disk = disk0
        /\ workbook = <<>>
        /\ events = <<>>
        /\ procs = <<>>

C4_Witness ==
    /\ pc = "arg_error"
    /\ argv.output = Path(HiddenIcs)
    /\ argv.file = PyNone

(***************************************************************************)
(* C5: a run without --file that has created the template leaves no        *)
(* template file on disk in any terminal state, failed or successful.      *)
(***************************************************************************)
C5_TemplateDeletedInEveryTerminalState ==
    (argv.file = PyNone /\ Launched("excel") /\ Terminal) =>
        disk[EventsFile] = NoFile

(***************************************************************************)
(* C6: in a run given --file, cleanup deletes nothing: once cleanup has    *)
(* run, events.xlsx is as it was at start; and with no events.xlsx on disk *)
(* cleanup changes no file.                                                *)
(***************************************************************************)
C6_CleanupDeletesOnlyItsOwnTemplate ==
    /\ (argv.file # PyNone /\ pc \in {"reveal", "done"}) =>
          disk[EventsFile] = disk0[EventsFile]
    /\ (argv.file # PyNone /\ pc \in {"reveal", "done"} /\ disk0[EventsFile] = NoFile) =>
          \A p \in Paths \ {OutputOf(argv)} : disk[p] = disk0[p]

(***************************************************************************)
(* C7: every exported component carries SUMMARY, DESCRIPTION, DTSTART,     *)
(* DTEND and DTSTAMP, and carries LOCATION exactly when the row's Location *)
(* cell is not empty.                                                      *)
(***************************************************************************)
C7_LocationOnlyWhenPresent ==
    ExportDone =>
        \A i \in 1..Len(Components) :
            /\ {"SUMMARY", "DESCRIPTION", "DTSTART", "DTEND", "DTSTAMP"}
                  \subseteq DOMAIN Components[i]
            /\ "LOCATION" \in DOMAIN Components[i] <=> DataRows[i][6] # PyNone

\* the stage a position of main() belongs to, in the order of the pass
Stage(at) ==
    CASE at \in {"parse_args", "check_file"} -> 0
      [] at \in {"create_event_file", "open_excel", "input"} -> 1
      [] at \in {"load_events", "load_row"} -> 2
      [] at \in {"export_ics", "export_write"} -> 3
      [] at = "delete_temporary_files" -> 4
      [] at = "reveal" -> 5
      [] at \in {"done", "arg_error", "error"} -> 6

C8_StageOrder ==
    /\ Stage(pc) = 1 => argv.file = PyNone
    /\ Stage(pc) \in 2..5 \/ pc \in {"done", "error"} =>
          (Launched("excel") <=> argv.file = PyNone)
    /\ Len(procs) <= 2
    /\ Launched("reveal") => pc = "done"
    /\ Stage(pc) \in 3..5 \/ pc = "done" =>
          /\ rowIdx = Len(workbook) + 1
          /\ Len(events) = Len(workbook) - 1
    /\ Stage(pc) \in 4..5 \/ pc = "done" =>
          /\ Document.kind = "bytes" /\ Document.complete
          /\ Len(Document.components) = Len(events)

C8_ForwardStep ==
    /\ Stage(pc') >= Stage(pc)
    /\ pc' \in {"create_event_file", "load_events", "export_ics",
                "delete_temporary_files", "reveal"} /\ pc' # pc
          => Stage(pc') > Stage(pc)

(***************************************************************************)
(* C8: the run is one forward pass through provisioning, parsing, export,  *)
(* cleanup and reveal: no step returns to an earlier stage; the template   *)
(* is provisioned exactly when no --file was given; export starts only     *)
(* with every row parsed, cleanup only with the document fully written.    *)
(***************************************************************************)
C8_SingleForwardPass == [](C8_StageOrder) /\ [][C8_ForwardStep]_vars

C8_Witness ==
    /\ pc = "done"
    /\ argv.file = PyNone
    /\ Len(events) = 2
    /\ procs = <<[cmd |-> "excel", target |-> EventsFile],
                 [cmd |-> "reveal", target |-> OutputOf(argv)]>>

\* a Date cell that is no date, or a Start time or End time cell that is no time
BadCell(row) ==
    \/ row[3].kind \notin {"date", "datetime"}
    \/ row[4].kind # "time"
    \/ row[5].kind # "time"

ParsedSheetHasBadRow ==
    /\ workbook # <<>>
    /\ \E i \in 2..Len(workbook) : BadCell(workbook[i])

(***************************************************************************)
(* C9: when a data row of the parsed sheet has an empty or wrongly typed   *)
(* Date, Start time or End time cell, the run never gets past row parsing: *)
(* the output file stays as it was at start, no calendar is built and the  *)
(* reveal is not invoked; the run ends in the error state.                 *)
(***************************************************************************)
C9_NoExportAfterBadRow ==
    ParsedSheetHasBadRow =>
        /\ pc \in {"load_row", "error"}
        /\ Document = disk0[OutputOf(argv)]
        /\ cal = <<>>
        /\ ~Launched("reveal")

C9_Witness ==
    /\ pc = "error"
    /\ Len(events) = 1
    /\ BadCell(workbook[3])
    /\ disk0[OutputOf(argv)] = Other

C10_TemplateBeforeEditor ==
    /\ pc \in {"open_excel", "input"} =>
          /\ disk[EventsFile].kind = "xlsx"
          /\ Len(disk[EventsFile].rows) >= 1
          /\ disk[EventsFile].rows[1] = Header
    /\ pc = "open_excel" => disk[EventsFile] = Xlsx(<<Header>>) /\ procs = <<>>
    /\ pc = "input" => procs = <<[cmd |-> "excel", target |-> EventsFile]>>
    /\ pc \in {"create_event_file", "open_excel", "input"} => workbook = <<>>

C10_OnlyReturnLeavesPrompt ==
    /\ pc = "input" => pc' \in {"input", "load_events"}
    /\ (argv.file = PyNone /\ pc' = "load_events") => pc = "input"

C10_Confirmed == argv.file = PyNone /\ pc = "load_events"

(***************************************************************************)
(* C10: without --file, the template holds the header row before the       *)
(* editor is launched and keeps it while the run waits; the sheet is not   *)
(* read before the user's RETURN, which is the only way out of the prompt; *)
(* and once the user has confirmed the run reaches a terminal state.       *)
(***************************************************************************)
C10_PromptBlocksUntilReturn ==
    /\ [](C10_TemplateBeforeEditor)
    /\ [][C10_OnlyReturnLeavesPrompt]_vars
    /\ (C10_Confirmed ~> Terminal)

C10_Witness ==
    /\ argv.file = PyNone
    /\ pc = "done"
    /\ Len(workbook) = 3

====
